---- MODULE Spec2Model ----
(***************************************************************************)
(* A model of autokeras/utils/utils.py: the adaptive batch-size retry      *)
(* loop (run_with_adaptive_batch_size) with its fit / evaluate / predict   *)
(* wrappers, add_to_hp, and the two dependency version checks.             *)
(*                                                                         *)
(* One behaviour is one call of one of these functions by an external      *)
(* caller.  What the callee cannot decide (whether an invocation of func   *)
(* returns or raises, what it returns, which version is installed) is      *)
(* chosen nondeterministically.                                            *)
(***************************************************************************)
EXTENDS Integers, Sequences, FiniteSets, TLC

\* ------------------------------------------------------------------ bounds
\* Largest initial batch size a caller hands in.
MaxBatch == 32
\* Number of elements of the primary and of the validation dataset.
NumElems == 5
NumValElems == 3
\* Largest digit count of one component of a version string is 2; the
\* number of components of an installed version string is 1..MaxComponents.
MaxComponents == 3

VARIABLES
    pc,              \* "idle" | "loop" | "ret" | "done"
    entry,           \* the function the caller called
    model,           \* the model object captured by a wrapper's closure
    verbose,         \* the verbose flag captured by evaluate / predict
    batch_size,      \* local of run_with_adaptive_batch_size
    x,               \* local: the primary dataset
    validation_data, \* local: the validation dataset or None
    fit_kwargs,      \* local: the remaining keyword options
    history,         \* local: [bound, value]; unbound until func returns
    init,            \* the caller's arguments, as handed in
    funcCalls,       \* every invocation of func, in order
    modelCalls,      \* every call of model.fit / evaluate / predict, in order
    printed,         \* the batch sizes reported on standard output, in order
    rebatched,       \* every unbatch().batch(n), in order
    hpsCalls,        \* every call against the registry hps, in order
    warnings,        \* every warnings.warn, in order
    hpCall,          \* add_to_hp's arguments hp and name, as handed in
    installed,       \* the version string the checked package exposes
    outcome          \* how the call ended

vars == <<pc, entry, model, verbose, batch_size, x, validation_data, fit_kwargs,
          history, init, funcCalls, modelCalls, printed, rebatched, hpsCalls,
          warnings, hpCall, installed, outcome>>

\* ------------------------------------------------------------------ values
\* A keyword option's value: None, a dataset (its batches, in order) or a
\* plain option value.
NoneVal == [tag |-> "None", batches |-> <<>>, opt |-> 0]
DatasetVal(bs) == [tag |-> "Dataset", batches |-> bs, opt |-> 0]
OptVal(n) == [tag |-> "Opt", batches |-> <<>>, opt |-> n]

EmptyKw == [k \in {} |-> NoneVal]

\* dict.pop(key) as far as the remaining dict goes.
Pop(d, key) == [k \in DOMAIN d \ {key} |-> d[k]]

\* <<first, first + 1, ..., first + n - 1>>
ElemSeq(first, n) == [i \in 1..n |-> first + i - 1]

\* Dataset.unbatch(): the elements of the batches, in order.
RECURSIVE Unbatch(_)
Unbatch(bs) == IF bs = <<>> THEN <<>> ELSE Head(bs) \o Unbatch(Tail(bs))

\* Dataset.batch(n) of a dataset of single elements, n >= 1: consecutive
\* groups of n elements, the last one holding what is left.
RECURSIVE Batch(_, _)
Batch(elems, n) ==
    IF elems = <<>> THEN <<>>
    ELSE IF Len(elems) <= n THEN <<elems>>
    ELSE <<SubSeq(elems, 1, n)>> \o Batch(SubSeq(elems, n + 1, Len(elems)), n)

\* x.unbatch().batch(batch_size)
RebatchSame(ds, n) == ds
Rebatch(ds, n) == DatasetVal(Batch(Unbatch(ds.batches), n))

\* batch_size //= 2
HalveByDecrement(b) == b - 1
Halve(b) == b \div 2

\* ------------------------------------------------------- results and errors
NoError == [type |-> "none", src |-> 0]
\* An error object: its class and the invocation of func that raised it
\* (src = 0: raised by the module's own code, not by func).
Error(type, src) == [type |-> type, src |-> src]

\* How a call ended: it returned value (with model > 0: the pair
\* (model, value)), or it raised error.
NoOutcome == [kind |-> "none", value |-> 0, model |-> 0, error |-> NoError]
Returned(v, m) == [kind |-> "return", value |-> v, model |-> m, error |-> NoError]
Raised(e) == [kind |-> "raise", value |-> 0, model |-> 0, error |-> e]

Unbound == [bound |-> FALSE, value |-> 0]
Bound(v) == [bound |-> TRUE, value |-> v]

\* ------------------------------------------------------- the caller's inputs
\* Initial batch sizes: the positive ones, and 0 and -1.
BatchSizes == -1..MaxBatch
\* The results an invocation of func can return; the model objects.
Histories == {1, 2}
Models == {1, 2}

XPart ==
    {EmptyKw} \cup
    {"x" :> DatasetVal(Batch(ElemSeq(1, NumElems), n)) : n \in {2, NumElems}}
VPart ==
    {EmptyKw, "validation_data" :> NoneVal,
     "validation_data" :> DatasetVal(Batch(ElemSeq(101, NumValElems), 2))}
EPart ==
    {EmptyKw, "epochs" :> OptVal(2),
     ("epochs" :> OptVal(2)) @@ ("verbose" :> OptVal(0))}
\* The keyword arguments of a call, as the caller writes them.
KwBundles == {xs @@ vs @@ es : xs \in XPart, vs \in VPart, es \in EPart}

\* The arguments as handed in: run_with_adaptive_batch_size's batch_size
\* and keyword bundle kw, and the keywords the outer caller wrote.
InitArgs(b, kw, caller) == [batch_size |-> b, kw |-> kw, caller |-> caller]
NoArgs == InitArgs(0, EmptyKw, EmptyKw)

\* ------------------------------------------- run_with_adaptive_batch_size
\* while batch_size > 0
LoopGuard(b) == b > 0

\* except tf.errors.ResourceExhaustedError
CaughtAny(type) == TRUE
Caught(type) == type = "ResourceExhaustedError"

\* if batch_size == 1: raise e
AtFloor(b) == b = 1
FloorOutcomeWrapped(e) == Raised(Error("RuntimeError", 0))
FloorOutcome(e) == Raised(e)

\* break: the loop is left for the return statement
AfterSuccessRetry == "loop"
AfterSuccess == "ret"

\* func(x=x, validation_data=validation_data, **fit_kwargs)
InvokeArgsNoOptions ==
    [x |-> x, validation_data |-> validation_data, kwargs |-> EmptyKw]
InvokeArgs ==
    [x |-> x, validation_data |-> validation_data, kwargs |-> fit_kwargs]

\* The wrappers' closures: what one invocation of func passes to the model.
\*   fit:                lambda **kwargs: model.fit(**kwargs)
\*   evaluate / predict: lambda x, validation_data, **kwargs:
\*                           model.<method>(x, verbose=verbose, **kwargs)
ModelArgsAll(a) ==
    ("x" :> a.x) @@ ("validation_data" :> a.validation_data) @@
    ("verbose" :> OptVal(verbose)) @@ a.kwargs
ModelArgs(a) ==
    IF entry = "fit"
    THEN ("x" :> a.x) @@ ("validation_data" :> a.validation_data) @@ a.kwargs
    ELSE ("x" :> a.x) @@ ("verbose" :> OptVal(verbose)) @@ a.kwargs

\* One invocation of func, ending as result says.
Invocation(result) ==
    /\ funcCalls' = Append(funcCalls,
           [x |-> InvokeArgs.x, validation_data |-> InvokeArgs.validation_data,
            kwargs |-> InvokeArgs.kwargs, batch_size |-> batch_size,
            result |-> result])
    /\ modelCalls' =
           IF entry = "run" THEN modelCalls
           ELSE Append(modelCalls,
                  [method |-> entry, model |-> model, args |-> ModelArgs(InvokeArgs)])

FuncReturned(h) == [status |-> "returned", value |-> h]
FuncRaised(type) == [status |-> type, value |-> 0]

\* Lines 95-98: x and validation_data are taken out of the keyword bundle.
Enter(b, kw, caller) ==
    /\ init' = InitArgs(b, kw, caller)
    /\ IF "x" \in DOMAIN kw
       THEN /\ x' = kw["x"]
            /\ validation_data' =
                  IF "validation_data" \in DOMAIN kw
                  THEN kw["validation_data"] ELSE NoneVal
            /\ fit_kwargs' = Pop(Pop(kw, "x"), "validation_data")
            /\ batch_size' = b
            /\ pc' = "loop"
            /\ outcome' = outcome
       ELSE \* fit_kwargs.pop("x") on a bundle without x
            /\ pc' = "done"
            /\ outcome' = Raised(Error("KeyError", 0))
            /\ UNCHANGED <<x, validation_data, fit_kwargs, batch_size>>
    /\ UNCHANGED <<history, funcCalls, modelCalls, printed, rebatched,
                   hpsCalls, warnings, hpCall, installed>>

\* A direct call of run_with_adaptive_batch_size with some func.
CallRun(b, kw) ==
    /\ pc = "idle"
    /\ entry' = "run"
    /\ UNCHANGED <<model, verbose>>
    /\ Enter(b, kw, kw)

\* fit_with_adaptive_batch_size(model, batch_size, **fit_kwargs)
CallFit(m, b, kw) ==
    /\ pc = "idle"
    /\ entry' = "fit"
    /\ model' = m
    /\ UNCHANGED verbose
    /\ Enter(b, kw, kw)

\* evaluate_with_adaptive_batch_size / predict_with_adaptive_batch_size
\* (model, batch_size, verbose=1, **fit_kwargs): a verbose keyword of the
\* caller binds to the parameter, the others make up fit_kwargs.
CallEvaluateOrPredict(method, m, b, kw) ==
    /\ pc = "idle"
    /\ entry' = method
    /\ model' = m
    /\ verbose' = IF "verbose" \in DOMAIN kw THEN kw["verbose"].opt ELSE 1
    /\ Enter(b, Pop(kw, "verbose"), kw)

CallEvaluate(m, b, kw) == CallEvaluateOrPredict("evaluate", m, b, kw)
CallPredict(m, b, kw) == CallEvaluateOrPredict("predict", m, b, kw)

\* Lines 99-102: func returns normally.
InvokeReturns(h) ==
    /\ pc = "loop"
    /\ LoopGuard(batch_size)
    /\ Invocation(FuncReturned(h))
    /\ history' = Bound(h)
    /\ pc' = AfterSuccess
    /\ UNCHANGED <<entry, model, verbose, batch_size, x, validation_data,
                   fit_kwargs, init, printed, rebatched, hpsCalls, warnings,
                   hpCall, installed, outcome>>

\* Lines 99-114: func raises an error of class type.
InvokeRaises(type) ==
    /\ pc = "loop"
    /\ LoopGuard(batch_size)
    /\ Invocation(FuncRaised(type))
    /\ LET e == Error(type, Len(funcCalls) + 1)
           nb == Halve(batch_size)
       IN IF ~Caught(type)
          THEN /\ pc' = "done"
               /\ outcome' = Raised(e)
               /\ UNCHANGED <<batch_size, x, validation_data, printed, rebatched>>
          ELSE IF AtFloor(batch_size)
          THEN /\ pc' = "done"
               /\ outcome' = FloorOutcome(e)
               /\ UNCHANGED <<batch_size, x, validation_data, printed, rebatched>>
          ELSE /\ batch_size' = nb
               /\ printed' = Append(printed, nb)
               /\ x' = Rebatch(x, nb)
               /\ IF validation_data # NoneVal
                  THEN /\ validation_data' = Rebatch(validation_data, nb)
                       /\ rebatched' = rebatched \o
                             <<[target |-> "x", size |-> nb],
                               [target |-> "validation_data", size |-> nb]>>
                  ELSE /\ validation_data' = validation_data
                       /\ rebatched' = Append(rebatched,
                                               [target |-> "x", size |-> nb])
               /\ pc' = "loop"
               /\ outcome' = outcome
    /\ UNCHANGED <<entry, model, verbose, fit_kwargs, history, init, hpsCalls,
                   warnings, hpCall, installed>>

\* Line 115 (and line 91 for fit): return history, once the loop is left by
\* break or by its guard.  Reading history before any assignment raises
\* UnboundLocalError.
ReturnHistory ==
    /\ pc = "ret" \/ (pc = "loop" /\ ~LoopGuard(batch_size))
    /\ pc' = "done"
    /\ outcome' =
          IF history.bound
          THEN Returned(history.value, IF entry = "fit" THEN model ELSE 0)
          ELSE Raised(Error("UnboundLocalError", 0))
    /\ UNCHANGED <<entry, model, verbose, batch_size, x, validation_data,
                   fit_kwargs, history, init, funcCalls, modelCalls, printed,
                   rebatched, hpsCalls, warnings, hpCall, installed>>

\* ---------------------------------------------------------------- add_to_hp
\* The name argument: None, or a string.
NoName == [isNone |-> TRUE, str |-> ""]
Name(str) == [isNone |-> FALSE, str |-> str]

\* A plain value, which is no keras_tuner HyperParameter.
PlainValue(v) ==
    [isHP |-> FALSE, value |-> v, class_name |-> "", name |-> "", config |-> EmptyKw]
\* A HyperParameter of class class_name, with what its get_config() returns:
\* its name, its conditions and the fields of its class.
HyperParameter(class_name, name, conditions, fields) ==
    [isHP |-> TRUE, value |-> 0, class_name |-> class_name, name |-> name,
     config |-> ("name" :> name) @@ ("conditions" :> conditions) @@ fields]

HpNames == {"units", "dropout"}
HpConditions == {<<>>, <<1>>}
HpRecords ==
    {HyperParameter("Boolean", n, c, "default" :> d) :
        n \in HpNames, c \in HpConditions, d \in {0, 1}} \cup
    {HyperParameter("Int", n, c,
        ("default" :> lo) @@ ("min_value" :> lo) @@ ("max_value" :> lo + 2) @@
        ("step" :> 1)) :
        n \in HpNames, c \in HpConditions, lo \in {1, 2}} \cup
    {HyperParameter("Fixed", n, c, "value" :> v) :
        n \in HpNames, c \in HpConditions, v \in {3, 4}}
HpInputs == {PlainValue(v) : v \in {3, 4}} \cup HpRecords
NameArgs == {NoName, Name("units"), Name("renamed")}
\* What a constructor of the registry returns.
Handles == {21, 22}

\* if name is None: name = hp.name
ResolvedNameOwnFirst(hp, name) == hp.name
ResolvedName(hp, name) == IF name.isNone THEN hp.name ELSE name.str

\* kwargs = hp.get_config(); kwargs.pop("conditions"); kwargs.pop("name")
HpKwargsKeepConditions(hp) == Pop(hp.config, "name")
HpKwargs(hp) == Pop(Pop(hp.config, "conditions"), "name")

\* add_to_hp(hp, hps, name): handle is what the constructor of hps returns.
AddToHp(hp, name, handle) ==
    /\ pc = "idle"
    /\ entry' = "add_to_hp"
    /\ hpCall' = [hp |-> hp, name |-> name]
    /\ IF ~hp.isHP
       THEN /\ outcome' = Returned(hp.value, 0)
            /\ UNCHANGED hpsCalls
       ELSE /\ hpsCalls' = Append(hpsCalls,
                 [constructor |-> hp.class_name,
                  kwargs |-> ("name" :> ResolvedName(hp, name)) @@ HpKwargs(hp),
                  result |-> handle])
            /\ outcome' = Returned(handle, 0)
    /\ pc' = "done"
    /\ UNCHANGED <<model, verbose, batch_size, x, validation_data, fit_kwargs,
                   history, init, funcCalls, modelCalls, printed, rebatched,
                   warnings, installed>>

\* ------------------------------------------------------------ version checks
\* A version string is the sequence of its characters.
Digits == <<"0", "1", "2", "3", "4", "5", "6", "7", "8", "9">>
DigitChar(d) == Digits[d + 1]
DigitValue(c) == CHOOSE d \in 0..9 : Digits[d + 1] = c
\* The characters' order: "." sorts before every digit.
CharOrd(c) == IF c = "." THEN 0 ELSE 1 + DigitValue(c)

\* str(n) for 0 <= n < 100
Str(n) == IF n < 10 THEN <<DigitChar(n)>> ELSE <<DigitChar(n \div 10), DigitChar(n % 10)>>
\* ".".join(str(n) for n in release)
RECURSIVE Dotted(_)
Dotted(release) ==
    IF Len(release) = 1 THEN Str(release[1])
    ELSE Str(release[1]) \o <<".">> \o Dotted(Tail(release))

\* The versions a package may expose: 1..MaxComponents numbers, dotted.
ComponentValues == {0, 1, 2, 7, 10, 11}
Releases == UNION {[1..n -> ComponentValues] : n \in 1..MaxComponents}
NoVersion == [release |-> <<>>, text |-> <<>>]
Versions == {[release |-> r, text |-> Dotted(r)] : r \in Releases}

TfMinimum == <<"2", ".", "7", ".", "0">>
KtMinimum == <<"1", ".", "1", ".", "0">>

\* packaging.version.parse(text).release: the dot-separated components, each
\* read as a decimal number.
RECURSIVE ParseFrom(_, _, _)
ParseFrom(text, i, acc) ==
    IF i > Len(text) THEN <<acc>>
    ELSE IF text[i] = "." THEN <<acc>> \o ParseFrom(text, i + 1, 0)
    ELSE ParseFrom(text, i + 1, 10 * acc + DigitValue(text[i]))
Parse(text) == ParseFrom(text, 1, 0)

\* packaging compares releases as tuples with their trailing zeros dropped.
RECURSIVE StripTrailingZeros(_)
StripTrailingZeros(r) ==
    IF r # <<>> /\ r[Len(r)] = 0 THEN StripTrailingZeros(SubSeq(r, 1, Len(r) - 1))
    ELSE r

\* Tuple order on sequences of numbers: at the first difference, or a
\* proper prefix first.
SeqLess(a, b) ==
    \E i \in 1..Len(b) :
        /\ \A j \in 1..(i - 1) : j <= Len(a) /\ a[j] = b[j]
        /\ (i > Len(a) \/ a[i] < b[i])

\* parse(version) < parse(minimum)
BelowAsStrings(text, minimum) ==
    SeqLess([i \in 1..Len(text) |-> CharOrd(text[i])],
            [i \in 1..Len(minimum) |-> CharOrd(minimum[i])])
Below(text, minimum) ==
    SeqLess(StripTrailingZeros(Parse(text)), StripTrailingZeros(Parse(minimum)))

CheckVersion(name, package, v, minimum) ==
    /\ pc = "idle"
    /\ entry' = name
    /\ installed' = v
    /\ warnings' =
          IF Below(v.text, minimum)
          THEN Append(warnings,
                 [category |-> "ImportWarning", package |-> package,
                  minimum |-> minimum, version |-> v.text])
          ELSE warnings
    /\ outcome' = Returned(0, 0)
    /\ pc' = "done"
    /\ UNCHANGED <<model, verbose, batch_size, x, validation_data, fit_kwargs,
                   history, init, funcCalls, modelCalls, printed, rebatched,
                   hpsCalls, hpCall>>

\* check_tf_version(), with tf.__version__ = v.text
CheckTfVersion(v) == CheckVersion("check_tf_version", "tensorflow", v, TfMinimum)
\* check_kt_version(), with keras_tuner.__version__ = v.text
CheckKtVersion(v) == CheckVersion("check_kt_version", "keras_tuner", v, KtMinimum)

ErrorTypes == {"ResourceExhaustedError", "OtherError"}

Init ==
    /\ pc = "idle"
    /\ entry = "none"
    /\ model = 0
    /\ verbose = 0
    /\ batch_size = 0
    /\ x = NoneVal
    /\ validation_data = NoneVal
    /\ fit_kwargs = EmptyKw
    /\ history = Unbound
    /\ init = NoArgs
    /\ funcCalls = <<>>
    /\ modelCalls = <<>>
    /\ printed = <<>>
    /\ rebatched = <<>>
    /\ hpsCalls = <<>>
    /\ warnings = <<>>
    /\ hpCall = [hp |-> PlainValue(0), name |-> NoName]
    /\ installed = NoVersion
    /\ outcome = NoOutcome

\* The caller makes one call (from idle); the retry loop then runs to its end.
Next ==
    \/ pc = "idle" /\ \E b \in BatchSizes, kw \in KwBundles : CallRun(b, kw)
    \/ pc = "idle" /\ \E m \in Models, b \in BatchSizes, kw \in KwBundles :
                         CallFit(m, b, kw)
    \/ pc = "idle" /\ \E m \in Models, b \in BatchSizes, kw \in KwBundles :
                         CallEvaluate(m, b, kw)
    \/ pc = "idle" /\ \E m \in Models, b \in BatchSizes, kw \in KwBundles :
                         CallPredict(m, b, kw)
    \/ pc = "idle" /\ \E hp \in HpInputs, name \in NameArgs, handle \in Handles :
                         AddToHp(hp, name, handle)
    \/ pc = "idle" /\ \E v \in Versions : CheckTfVersion(v)
    \/ pc = "idle" /\ \E v \in Versions : CheckKtVersion(v)
    \/ \E h \in Histories : InvokeReturns(h)
    \/ \E t \in ErrorTypes : InvokeRaises(t)
    \/ ReturnHistory

Spec == Init /\ [][Next]_vars

\* Every function of the module runs to completion on the caller's thread:
\* a step that can be taken is taken.
FairSpec == Spec /\ WF_vars(Next)

\* ------------------------------------------------------------------ claims
N == Len(funcCalls)
Done == pc = "done"
\* A call that reaches run_with_adaptive_batch_size and supplies x.
RunCall == entry \in {"run", "fit", "evaluate", "predict"} /\ "x" \in DOMAIN init.kw
Status(i) == funcCalls[i].result.status
ResourceExhausted == "ResourceExhaustedError"
\* The first k invocations all failed with resource exhaustion.
FirstFailed(k) == \A i \in 1..k : Status(i) = ResourceExhausted
\* ds holds exactly elems, in batches of n: every batch but the last has n
\* elements, the last has 1..n.
BatchedTo(ds, elems, n) ==
    /\ ds.tag = "Dataset"
    /\ Unbatch(ds.batches) = elems
    /\ \A i \in 1..Len(ds.batches) :
          /\ Len(ds.batches[i]) \in 1..n
          /\ i < Len(ds.batches) => Len(ds.batches[i]) = n
RECURSIVE Log2Floor(_)
Log2Floor(b) == IF b <= 1 THEN 0 ELSE 1 + Log2Floor(b \div 2)
\* How many of the recorded re-batchings were of target.
ReBatchCount(target) ==
    Cardinality({i \in 1..Len(rebatched) : rebatched[i].target = target})

\* C1: with a positive initial batch size, an invocation of func that
\* returned normally is the last invocation (func is never invoked again),
\* and a call that has ended after it returned that invocation's result; a
\* call that returned holds exactly one successful invocation, the last one.
C1_SuccessIsLastAndReturned ==
    (RunCall /\ init.batch_size > 0) =>
        /\ \A i \in 1..N : Status(i) = "returned" => i = N
        /\ (Done /\ N >= 1 /\ Status(N) = "returned") =>
              /\ outcome.kind = "return"
              /\ outcome.value = funcCalls[N].result.value
        /\ (Done /\ outcome.kind = "return") =>
              /\ N >= 1
              /\ Cardinality({i \in 1..N : Status(i) = "returned"}) = 1
              /\ Status(N) = "returned"
              /\ outcome.value = funcCalls[N].result.value

\* C1 witness: a call that returned after two failed invocations.
C1_Witness ==
    /\ RunCall /\ Done /\ outcome.kind = "return"
    /\ N = 3 /\ FirstFailed(2) /\ Status(3) = "returned"
    /\ outcome.value = 2

\* C2: initial batch size b >= 1, the first k invocations fail with resource
\* exhaustion (the k-th at a batch size floor(b / 2^(k-1)) > 1) and the next
\* one succeeds: there are exactly k + 1 invocations and k messages, the
\* j-th message reports floor(b / 2^j), the j-th retry runs at batch size
\* floor(b / 2^j) with x, and a validation_data that is not None, holding
\* the caller's elements in batches of exactly that size, and the call
\* returns the result of the last invocation.
C2_RetriesHalveAndRebatch ==
    (RunCall /\ init.batch_size >= 1) =>
        \A k \in 0..(N - 1) :
            ( /\ FirstFailed(k)
              /\ Status(k + 1) = "returned"
              /\ (k >= 1 => init.batch_size \div (2 ^ (k - 1)) > 1) ) =>
                /\ N = k + 1
                /\ Len(printed) = k
                /\ \A j \in 1..k :
                      LET size == init.batch_size \div (2 ^ j)
                          call == funcCalls[j + 1]
                      IN /\ printed[j] = size
                         /\ call.batch_size = size
                         /\ BatchedTo(call.x, Unbatch(init.kw["x"].batches), size)
                         /\ IF "validation_data" \in DOMAIN init.kw
                               /\ init.kw["validation_data"] # NoneVal
                            THEN BatchedTo(call.validation_data,
                                   Unbatch(init.kw["validation_data"].batches),
                                   size)
                            ELSE call.validation_data = NoneVal
                /\ Done =>
                      /\ outcome.kind = "return"
                      /\ outcome.value = funcCalls[N].result.value

\* C2 witness: initial batch size 32 with a validation dataset, failing at
\* 32, 16 and 8 and succeeding at 4.
C2_Witness ==
    /\ RunCall /\ Done /\ init.batch_size = 32
    /\ "validation_data" \in DOMAIN init.kw
    /\ init.kw["validation_data"] # NoneVal
    /\ N = 4 /\ FirstFailed(3) /\ Status(4) = "returned"
    /\ funcCalls[4].batch_size = 4
    /\ Len(printed) = 3
    /\ outcome.kind = "return"

\* C3: a resource-exhaustion failure raised at batch size 1 ends the call
\* with that same error: no later invocation, batch size still 1, x and
\* validation_data as that invocation received them, no re-batching and no
\* message for it; with initial batch size 1 func is invoked exactly once.
C3_FloorReraises ==
    RunCall =>
        \A i \in 1..N :
            (funcCalls[i].batch_size = 1 /\ Status(i) = ResourceExhausted) =>
                /\ i = N
                /\ Done
                /\ outcome = Raised(Error(ResourceExhausted, i))
                /\ batch_size = 1
                /\ x = funcCalls[i].x
                /\ validation_data = funcCalls[i].validation_data
                /\ Len(printed) = i - 1
                /\ ReBatchCount("x") = i - 1
                /\ ReBatchCount("validation_data") \in {0, i - 1}
                /\ (init.batch_size = 1 =>
                      N = 1 /\ printed = <<>> /\ rebatched = <<>>)

\* C3 witness: initial batch size 1, func fails with resource exhaustion.
C3_Witness ==
    /\ RunCall /\ Done /\ init.batch_size = 1
    /\ N = 1 /\ Status(1) = ResourceExhausted
    /\ outcome.kind = "raise"

\* C4: an invocation that fails with another error than resource
\* exhaustion, at any batch size and after any number of retries, ends the
\* call with that error: no later invocation, the batch size and the
\* datasets as that invocation had them, and no message for that failure.
C4_OtherErrorPropagates ==
    RunCall =>
        \A i \in 1..N :
            Status(i) = "OtherError" =>
                /\ i = N
                /\ Done
                /\ outcome = Raised(Error("OtherError", i))
                /\ batch_size = funcCalls[i].batch_size
                /\ x = funcCalls[i].x
                /\ validation_data = funcCalls[i].validation_data
                /\ Len(printed) = i - 1
                /\ ReBatchCount("x") = i - 1

\* C4 witness: another error on the third invocation, at a batch size > 1.
C4_Witness ==
    /\ RunCall /\ Done
    /\ N = 3 /\ FirstFailed(2) /\ Status(3) = "OtherError"
    /\ funcCalls[3].batch_size > 1
    /\ outcome.error.type = "OtherError"

\* C5 (state part): with a positive initial batch size b the batch sizes of
\* successive invocations are >= 1 and strictly decreasing, there are at
\* most floor(log2(b)) + 1 invocations, and a call all of whose invocations
\* failed with resource exhaustion ends after exactly that many, the last at
\* batch size 1, by raising that invocation's error.
C5_Bounded ==
    (RunCall /\ init.batch_size > 0) =>
        /\ \A i \in 1..N : funcCalls[i].batch_size >= 1
        /\ \A i \in 1..(N - 1) :
              funcCalls[i + 1].batch_size < funcCalls[i].batch_size
        /\ N <= Log2Floor(init.batch_size) + 1
        /\ (Done /\ FirstFailed(N)) =>
              /\ N = Log2Floor(init.batch_size) + 1
              /\ funcCalls[N].batch_size = 1
              /\ outcome = Raised(Error(ResourceExhausted, N))

\* C5: for every positive initial batch size the call terminates, within
\* the bound on invocations stated by C5_Bounded.
C5_Terminates ==
    /\ []C5_Bounded
    /\ (RunCall /\ init.batch_size > 0) ~> Done

\* C5 witness: a func that always fails, from the largest initial batch
\* size down to batch size 1.
C5_Witness ==
    /\ RunCall /\ Done /\ init.batch_size = MaxBatch
    /\ FirstFailed(N) /\ N = Log2Floor(MaxBatch) + 1
    /\ funcCalls[N].batch_size = 1
    /\ outcome.error.type = ResourceExhausted

\* C6: every call that supplies x, whatever its initial batch size (0 and
\* negative ones included), ends after at least one invocation of func, by
\* returning the result of a successful invocation, by re-raising a
\* resource-exhaustion error func raised at batch size 1, or by propagating
\* another error func raised.
C6_ThreeOutcomes ==
    (RunCall /\ Done) =>
        /\ N >= 1
        /\ \/ /\ Status(N) = "returned"
              /\ outcome.kind = "return"
              /\ outcome.value = funcCalls[N].result.value
           \/ /\ Status(N) = ResourceExhausted
              /\ funcCalls[N].batch_size = 1
              /\ outcome = Raised(Error(ResourceExhausted, N))
           \/ /\ Status(N) = "OtherError"
              /\ outcome = Raised(Error("OtherError", N))

\* C7: every invocation of func gets exactly the caller's keyword options
\* other than x and validation_data, each under its name with its value; a
\* validation_data that is absent or None is passed as None every time and
\* is never re-batched; the first invocation gets x as the caller passed it.
C7_OptionsPassedThrough ==
    RunCall =>
        /\ \A i \in 1..N :
              /\ DOMAIN funcCalls[i].kwargs =
                    DOMAIN init.kw \ {"x", "validation_data"}
              /\ \A key \in DOMAIN init.kw \ {"x", "validation_data"} :
                    funcCalls[i].kwargs[key] = init.kw[key]
              /\ ("validation_data" \notin DOMAIN init.kw
                    \/ init.kw["validation_data"] = NoneVal) =>
                    /\ funcCalls[i].validation_data = NoneVal
                    /\ ReBatchCount("validation_data") = 0
        /\ N >= 1 => funcCalls[1].x = init.kw["x"]

\* C7 witness: a retry of a call with options and without validation data.
C7_Witness ==
    /\ RunCall /\ N = 3
    /\ "validation_data" \notin DOMAIN init.kw
    /\ DOMAIN funcCalls[3].kwargs = {"epochs", "verbose"}
    /\ funcCalls[3].x # init.kw["x"]

\* The caller's verbose flag of evaluate / predict (1 when not given).
CallerVerbose ==
    IF "verbose" \in DOMAIN init.caller THEN init.caller["verbose"] ELSE OptVal(1)

\* C8: fit returns the pair of the model passed in and the result of the
\* successful model.fit invocation, after any number of retries; evaluate
\* and predict return only the result of the successful invocation of their
\* method, and each invocation of the method gets the current x, the
\* caller's verbose flag and the extra options, never validation_data.
C8_Wrappers ==
    (RunCall /\ entry # "run") =>
        /\ Len(modelCalls) = N
        /\ \A i \in 1..N :
              /\ modelCalls[i].method = entry
              /\ modelCalls[i].model = model
        /\ (Done /\ outcome.kind = "return") =>
              /\ Status(N) = "returned"
              /\ outcome.value = funcCalls[N].result.value
              /\ outcome.model = IF entry = "fit" THEN model ELSE 0
        /\ entry \in {"evaluate", "predict"} =>
              \A i \in 1..N :
                  LET args == modelCalls[i].args
                  IN /\ DOMAIN args =
                           (DOMAIN init.caller \ {"validation_data"}) \cup {"verbose"}
                     /\ args["x"] = funcCalls[i].x
                     /\ args["verbose"] = CallerVerbose
                     /\ \A key \in DOMAIN init.caller \
                                     {"x", "validation_data", "verbose"} :
                           args[key] = init.caller[key]

\* C8 witness: fit on model 2 returns (model 2, history 1) after two retries.
C8_Witness ==
    /\ RunCall /\ entry = "fit" /\ Done /\ model = 2
    /\ N = 3 /\ FirstFailed(2)
    /\ outcome = Returned(1, 2)

\* C9: for a plain value add_to_hp makes no call against hps and returns the
\* value; for a hyperparameter record it makes exactly one call, to the
\* constructor named after the record's class, with the record's
\* configuration less "conditions" and "name", with name the explicit name
\* argument unless that is None (then the record's own name), and returns
\* what that call returned.
C9_AddToHp ==
    (entry = "add_to_hp" /\ Done) =>
        LET hp == hpCall.hp
            name == hpCall.name
        IN IF ~hp.isHP
           THEN hpsCalls = <<>> /\ outcome = Returned(hp.value, 0)
           ELSE /\ Len(hpsCalls) = 1
                /\ hpsCalls[1].constructor = hp.class_name
                /\ DOMAIN hpsCalls[1].kwargs =
                      (DOMAIN hp.config \ {"conditions"}) \cup {"name"}
                /\ \A key \in DOMAIN hp.config \ {"conditions", "name"} :
                      hpsCalls[1].kwargs[key] = hp.config[key]
                /\ hpsCalls[1].kwargs["name"] =
                      IF name.isNone THEN hp.name ELSE name.str
                /\ outcome = Returned(hpsCalls[1].result, 0)

\* C9 witness: a record registered under an explicit name other than its own.
C9_Witness ==
    /\ entry = "add_to_hp" /\ Done
    /\ hpCall.hp.isHP /\ hpCall.hp.class_name = "Int"
    /\ ~hpCall.name.isNone /\ hpCall.name.str # hpCall.hp.name
    /\ Len(hpsCalls) = 1

\* The i-th number of a release, 0 when the release is shorter.
Component(release, i) == IF i <= Len(release) THEN release[i] ELSE 0
\* Dotted-version order: at the first component that differs, as numbers.
NumericallyBelow(a, b) ==
    \E i \in 1..(Len(a) + Len(b)) :
        /\ Component(a, i) < Component(b, i)
        /\ \A j \in 1..(i - 1) : Component(a, j) = Component(b, j)
MinimumRelease == IF entry = "check_tf_version" THEN <<2, 7, 0>> ELSE <<1, 1, 0>>

\* C10: check_tf_version (minimum 2.7.0) and check_kt_version (minimum
\* 1.1.0) return without raising, having emitted exactly one warning,
\* naming the installed version, when it is numerically below the minimum
\* component by component, and no warning when it is equal or above.
C10_VersionWarning ==
    (entry \in {"check_tf_version", "check_kt_version"} /\ Done) =>
        /\ outcome.kind = "return"
        /\ IF NumericallyBelow(installed.release, MinimumRelease)
           THEN /\ Len(warnings) = 1
                /\ warnings[1].category = "ImportWarning"
                /\ warnings[1].version = installed.text
           ELSE warnings = <<>>

\* C10 witness: TensorFlow 2.10.0, above 2.7.0 as numbers and below it as a
\* string, passes without a warning.
C10_Witness ==
    /\ entry = "check_tf_version" /\ Done
    /\ installed.release = <<2, 10, 0>>
    /\ warnings = <<>>

====
